---- MODULE Spec2Model ----
(***************************************************************************)
(* Verification model of purple-vet-whatsapp: the phone normalizer, the    *)
(* Cloud-API dispatcher, the session (whatsapp-web.js) dispatcher, and the *)
(* API-key middleware in front of the /api/whatsapp routes.                *)
(*                                                                         *)
(* Strings are sequences of one-character tokens, so that stripping,       *)
(* prefixing and concatenation are computed and not assumed.               *)
(***************************************************************************)
EXTENDS Integers, Sequences, FiniteSets, TLC

\* ------------------------------------------------------------------ bounds
MaxPrefix == 2      \* longest free-form prefix of an enumerated phone input
MaxRun == 13        \* longest run of digits following that prefix
MaxClients == 2     \* provider clients constructed in one run
MaxDisconnects == 1 \* disconnect() calls suspended at the same time

\* ------------------------------------------------------- program constants
CountryCodeThreshold == 11

\* An absent value (undefined / null / unset) of a text field.  All texts are
\* token sequences, so the absent value is a sequence no text equals.
Undefined == <<"undefined">>

\* JavaScript truthiness of a text value: undefined, null and '' are falsy.
Truthy(x) == x # Undefined /\ x # << >>

Digits == {"0", "1", "2", "3", "4", "5", "6", "7", "8", "9"}

\* ------------------------------------------------------- PhoneNormalizer

\* phone.replace(/\D/g, '')
StripNonDigits(s) == SelectSeq(s, LAMBDA c : c \in Digits)

\* formatted.startsWith('0')
StartsWithZero(s) == Len(s) > 0 /\ s[1] = "0"

BRAZIL == <<"5", "5">>

formatPhoneNumber_PrefixUpTo13(phone) ==
    LET stripped == StripNonDigits(phone)
        dropped == IF StartsWithZero(stripped)
                      THEN SubSeq(stripped, 2, Len(stripped))
                      ELSE stripped
    IN  IF Len(dropped) <= CountryCodeThreshold + 2 THEN BRAZIL \o dropped ELSE dropped

formatPhoneNumber_NoZeroDrop(phone) ==
    LET stripped == StripNonDigits(phone)
    IN  IF Len(stripped) <= CountryCodeThreshold THEN BRAZIL \o stripped ELSE stripped

formatPhoneNumber_EmptyStaysEmpty(phone) ==
    LET stripped == StripNonDigits(phone)
        dropped == IF StartsWithZero(stripped)
                      THEN SubSeq(stripped, 2, Len(stripped))
                      ELSE stripped
    IN  IF Len(dropped) <= CountryCodeThreshold /\ Len(stripped) > 0
           THEN BRAZIL \o dropped ELSE dropped

formatPhoneNumber(phone) ==
    LET stripped == StripNonDigits(phone)
        dropped == IF StartsWithZero(stripped)
                      THEN SubSeq(stripped, 2, Len(stripped))
                      ELSE stripped
    IN  IF Len(dropped) <= CountryCodeThreshold THEN BRAZIL \o dropped ELSE dropped

\* --- inputs of the normalizer
RECURSIVE Rep(_, _)
Rep(c, k) == IF k = 0 THEN << >> ELSE <<c>> \o Rep(c, k - 1)

PrefixAlphabet == {"0", "5", "+", " ", "-", "(", ")"}

RECURSIVE SeqsUpTo(_, _)
SeqsUpTo(S, n) ==
    IF n = 0 THEN {<< >>}
    ELSE LET shorter == SeqsUpTo(S, n - 1)
         IN  shorter \cup {<<c>> \o s : c \in S, s \in {t \in shorter : Len(t) = n - 1}}

\* README "Formato de Telefone" and the spec's test vectors
PhoneLocal == <<"1","1","9","9","9","9","9","9","9","9","9">>
PhonePlus == <<"+","5","5"," ","1","1"," ","9","9","9","9","9","-","9","9","9","9">>
PhoneParens == <<"(","1","1",")"," ","9","9","9","9","9","-","9","9","9","9">>
PhoneZero55 == <<"0","5","5","1","1","9","9","9","9","9","9","9","9","9">>
PhoneCanonical == <<"5","5","1","1","9","9","9","9","9","9","9","9","9">>

PhoneExamples == {PhoneLocal, PhonePlus, PhoneParens, PhoneZero55, PhoneCanonical}

NormInputs ==
    PhoneExamples \cup
    {pre \o Rep("9", k) : pre \in SeqsUpTo(PrefixAlphabet, MaxPrefix), k \in 0..MaxRun}

VARIABLES
    nPhone, nOut, nOut2, nPc,       \* normalizer: input, first and second result, position
    variant,                        \* "cloud" or "session": which service the routes import
    API_SECRET,                     \* process.env.API_SECRET
    accessToken, phoneNumberId,     \* Cloud service configuration
    last,                           \* what the last step was and what it put out
    client,                         \* this.client: 0 for null, else the client's number
    isInitializing, qrCodeData, isReady, phoneNumber,
    cl,                             \* the provider clients constructed so far
    disc,                           \* disconnect() calls suspended on an await
    snd                             \* the sendMessage call suspended on an await

nvars == <<nPhone, nOut, nOut2, nPc>>

cvars == <<variant, API_SECRET, accessToken, phoneNumberId>>

svars == <<client, isInitializing, qrCodeData, isReady, phoneNumber, cl, disc, snd>>

vars == <<nPhone, nOut, nOut2, nPc, variant, API_SECRET, accessToken, phoneNumberId, last,
          client, isInitializing, qrCodeData, isReady, phoneNumber, cl, disc, snd>>

NoStep == [kind |-> "none"]

\* The fields of the session service as declared, with no call suspended.
SessionFresh ==
    /\ client = 0
    /\ isInitializing = FALSE
    /\ qrCodeData = Undefined
    /\ isReady = FALSE
    /\ phoneNumber = Undefined
    /\ cl = [c \in 1..MaxClients |->
                [phase |-> "unborn", initPending |-> FALSE, info |-> Undefined]]
    /\ disc = [d \in 1..MaxDisconnects |-> [pc |-> "idle", loggedOut |-> 0, target |-> 0]]
    /\ snd = [pc |-> "idle", route |-> "", req |-> [recipientPhone |-> Undefined],
              calls |-> << >>]

NormInit ==
    /\ nPhone \in NormInputs
    /\ nOut = << >>
    /\ nOut2 = << >>
    /\ nPc = "input"
    /\ variant = "normalizer"
    /\ API_SECRET = Undefined
    /\ accessToken = Undefined
    /\ phoneNumberId = Undefined
    /\ last = NoStep
    /\ SessionFresh

\* formatPhoneNumber(phone)
Normalize ==
    /\ nPc = "input"
    /\ nOut' = formatPhoneNumber(nPhone)
    /\ nPc' = "once"
    /\ UNCHANGED <<nPhone, nOut2, cvars, last, svars>>

\* formatPhoneNumber(formatPhoneNumber(phone))
Renormalize ==
    /\ nPc = "once"
    /\ nOut2' = formatPhoneNumber(nOut)
    /\ nPc' = "twice"
    /\ UNCHANGED <<nPhone, nOut, cvars, last, svars>>

NormNext == Normalize \/ Renormalize

SpecNorm == NormInit /\ [][NormNext]_vars

\* ------------------------------------------------ API-key middleware

EnvSecrets == {Undefined, <<"s3cret">>}
\* <<x-api-key header, apiKey query parameter>> of a request
KeyPairs ==
    {<<Undefined, Undefined>>, <<<<"wrong">>, Undefined>>, <<<<"wrong">>, <<"s3cret">>>>,
     <<<<"s3cret">>, Undefined>>, <<Undefined, <<"s3cret">>>>}

\* req.headers['x-api-key'] || req.query.apiKey
RequestApiKey(hk, qk) == IF Truthy(hk) THEN hk ELSE qk

authenticateApiKey_SkipsMissingKey(hk, qk) ==
    LET apiKey == RequestApiKey(hk, qk)
    IN  IF ~Truthy(API_SECRET) THEN 500
        ELSE IF Truthy(apiKey) /\ apiKey # API_SECRET THEN 401
        ELSE 0

\* The status the middleware answers with, or 0 when it calls next().
authenticateApiKey(hk, qk) ==
    LET apiKey == RequestApiKey(hk, qk)
    IN  IF ~Truthy(API_SECRET) THEN 500
        ELSE IF ~Truthy(apiKey) \/ apiKey # API_SECRET THEN 401
        ELSE 0

\* A DispatchResult / JSON error body; absent members are Undefined.
Result(ok, id, err) == [success |-> ok, messageId |-> id, error |-> err]

AuthErrorBody(status) ==
    IF status = 500 THEN Result(FALSE, Undefined, <<"API_SECRET not configured">>)
    ELSE Result(FALSE, Undefined, <<"Invalid or missing API key">>)

\* The label of a step that handled (part of) an HTTP request.  status 0: the
\* handler is suspended on an await and has not answered yet.  ops: the
\* dispatcher operations the handler invoked; posts: the provider calls made
\* for the request; got: what the provider answered to the Cloud post.
Http(route, hk, qk, req, status, body, ops, posts) ==
    [kind |-> "http", route |-> route, hk |-> hk, qk |-> qk, req |-> req, status |-> status,
     body |-> body, ops |-> ops, posts |-> posts,
     got |-> [kind |-> "nothing", id |-> Undefined,
              err |-> [message |-> Undefined,
                       payload |-> [present |-> FALSE, message |-> Undefined,
                                    code |-> Undefined]]]]

\* ------------------------------------------------ Cloud-API service

AccessTokens == {Undefined, <<"EAAG-token">>, <<"EAAG-other">>}
IdLong == <<"1","0","6","5","4","0","3","5","2","2","4","2","9","2","2">>
\* an id that differs from IdLong only after its first eight characters
IdLongOther == <<"1","0","6","5","4","0","3","5","7","7","1","8","3","0","1">>
\* an id of fewer than eight characters
IdShort == <<"1","0","6","5">>
PhoneNumberIds == {Undefined, IdLong, IdLongOther, IdShort}

apiUrl == <<"https://graph.facebook.com/v18.0">>

\* !!(this.accessToken && this.phoneNumberId)
isConfigured == Truthy(accessToken) /\ Truthy(phoneNumberId)

RedactedLen == 8

\* String.prototype.substring(0, n): the first n characters, or all of them
Substring0(s, n) == SubSeq(s, 1, IF Len(s) < n THEN Len(s) ELSE n)

\* getStatus() of the Cloud service, as a function of the two credentials
getStatusOf(token, id) ==
    [isConfigured |-> Truthy(token) /\ Truthy(id),
     phoneNumberId |-> IF Truthy(id) THEN Substring0(id, RedactedLen) \o <<"...">>
                       ELSE <<"not_set">>,
     apiVersion |-> <<"v18.0">>]

\* getStatus() of the Cloud service
getStatusCloud == getStatusOf(accessToken, phoneNumberId)

LinkMarker == <<"NL", "NL", "LINK", " ">>

\* let messageText = request.message; if (request.linkUrl) messageText += `\n\n🔗 ${request.linkUrl}`
MessageText(request) ==
    IF Truthy(request.linkUrl)
       THEN request.message \o LinkMarker \o request.linkUrl
       ELSE request.message

MessagesUrl == apiUrl \o <<"/">> \o phoneNumberId \o <<"/messages">>

Bearer == <<"Bearer ">> \o accessToken

TextPost_RawPhone(request) ==
    [url |-> MessagesUrl, authorization |-> Bearer, type |-> "text",
     to |-> request.recipientPhone,
     preview_url |-> request.linkPreview # <<"false">>,
     body |-> MessageText(request)]

\* The axios.post of sendMessage: url, Authorization header and payload.
TextPost(request) ==
    [url |-> MessagesUrl, authorization |-> Bearer, type |-> "text",
     to |-> formatPhoneNumber(request.recipientPhone),
     preview_url |-> request.linkPreview # <<"false">>,
     body |-> MessageText(request)]

\* The axios.post of sendTemplateMessage.  components is attached only for
\* a non-empty parameters array.
TemplatePost(call) ==
    [url |-> MessagesUrl, authorization |-> Bearer, type |-> "template",
     to |-> formatPhoneNumber(call.recipientPhone),
     name |-> call.templateName, language |-> call.languageCode,
     components |-> IF call.parameters # Undefined /\ Len(call.parameters) > 0
                       THEN call.parameters ELSE Undefined]

NotConfiguredSend ==
    Result(FALSE, Undefined,
           <<"WhatsApp Cloud API não está configurada. Verifique as variáveis de ambiente.">>)

NotConfiguredTemplate ==
    Result(FALSE, Undefined, <<"WhatsApp Cloud API não está configurada.">>)

\* --- what the provider transport can do with one post
MsgIds == {<<"wamid.A">>, <<"wamid.B">>}

NoPayload == [present |-> FALSE, message |-> Undefined, code |-> Undefined]

ErrorPayloads ==
    {NoPayload,
     [present |-> TRUE, message |-> <<"(#131030) Recipient not in allowed list">>,
      code |-> <<"131030">>],
     [present |-> TRUE, message |-> Undefined, code |-> <<"190">>]}

\* A rejection: error.message and error.response?.data?.error
Rejections ==
    [message : {Undefined, << >>, <<"Network Error">>}, payload : ErrorPayloads]

Outcomes ==
    [kind : {"ack"}, id : MsgIds, err : {[message |-> Undefined, payload |-> NoPayload]}]
    \cup [kind : {"reject"}, id : {Undefined}, err : Rejections]
    \cup [kind : {"malformed"}, id : {Undefined},
          err : {[message |-> <<"Cannot read properties of undefined (reading '0')">>,
                  payload |-> NoPayload]}]

\* catch block of sendMessage
SendCatch(err) ==
    IF err.payload.present
       THEN Result(FALSE, Undefined,
                   <<"WhatsApp API Error: ">> \o err.payload.message
                       \o <<" (Code: ">> \o err.payload.code \o <<")">>)
       ELSE IF Truthy(err.message)
               THEN Result(FALSE, Undefined, err.message)
               ELSE Result(FALSE, Undefined, <<"Erro ao enviar mensagem">>)

\* catch block of sendTemplateMessage:
\* error.response?.data?.error?.message || error.message
TemplateCatch(err) ==
    LET payloadMessage == IF err.payload.present THEN err.payload.message ELSE Undefined
    IN  Result(FALSE, Undefined,
               IF Truthy(payloadMessage) THEN payloadMessage ELSE err.message)

\* The result of sendMessage / sendTemplateMessage once the post has settled.
CloudSettle(op, outcome) ==
    IF outcome.kind = "ack" THEN Result(TRUE, outcome.id, Undefined)
    ELSE IF op = "sendMessage" THEN SendCatch(outcome.err)
    ELSE TemplateCatch(outcome.err)

\* if (result.success) res.json(result) else res.status(400).json(result)
ResultStatus(result) == IF result.success THEN 200 ELSE 400

\* ------------------------------------------------ Cloud-API routes

PhoneChars == Digits \cup {" ", "+", "-", "(", ")"}

PhoneShort == <<"1", "1", "9">>
PhoneLetters == <<"1","1","9","9","9","9","9","9","9","9","x">>

ReqPhones == {Undefined, PhoneLocal, PhonePlus, PhoneShort, PhoneLetters}
ReqMessages == {Undefined, << >>, <<"h", "i">>}
GoodLink == <<"https", ":", "//x.com">>
ReqLinks == {Undefined, GoodLink, <<"not a uri">>}
LinkPreviews == {Undefined, <<"false">>}
TemplateNames == {Undefined, <<"exam_ready">>}
LanguageCodes == {Undefined, <<"en_US">>}
ParameterLists == {Undefined, << >>, <<"Joao", "Ultrassom">>}

MinPhoneLen == 10
MaxPhoneLen == 20
MaxMessageLen == 4096

\* /^[\d\s\+\-\(\)]+$/
MatchesPhonePattern(s) == Len(s) > 0 /\ \A i \in 1..Len(s) : s[i] \in PhoneChars

\* Joi.string().uri(): a scheme, a colon, and something after it
IsUri(s) == Len(s) >= 3 /\ s[1] \in {"http", "https"} /\ s[2] = ":"

\* sendMessageSchema.validate(req.body): the first error's message, or
\* Undefined when the body is valid.
sendMessageSchemaError(b) ==
    IF b.recipientPhone = Undefined THEN <<"recipientPhone is required">>
    ELSE IF b.recipientPhone = << >> THEN <<"recipientPhone is not allowed to be empty">>
    ELSE IF ~MatchesPhonePattern(b.recipientPhone) THEN <<"Número de telefone inválido">>
    ELSE IF Len(b.recipientPhone) < MinPhoneLen THEN <<"Número deve ter no mínimo 10 dígitos">>
    ELSE IF Len(b.recipientPhone) > MaxPhoneLen THEN <<"Número deve ter no máximo 20 dígitos">>
    ELSE IF b.message = Undefined THEN <<"message is required">>
    ELSE IF b.message = << >> THEN <<"message is not allowed to be empty">>
    ELSE IF Len(b.message) > MaxMessageLen
            THEN <<"Mensagem muito longa (máximo 4096 caracteres)">>
    ELSE IF b.linkUrl # Undefined /\ ~IsUri(b.linkUrl) THEN <<"URL do link inválida">>
    ELSE Undefined

\* The validated value: linkPreview defaults to true.
sendMessageSchemaValue(b) ==
    [recipientPhone |-> b.recipientPhone, message |-> b.message, linkUrl |-> b.linkUrl,
     linkPreview |-> IF b.linkPreview = Undefined THEN <<"true">> ELSE b.linkPreview]

sendTemplateSchemaError(b) ==
    IF b.recipientPhone = Undefined THEN <<"recipientPhone is required">>
    ELSE IF b.recipientPhone = << >> THEN <<"recipientPhone is not allowed to be empty">>
    ELSE IF ~MatchesPhonePattern(b.recipientPhone)
            THEN <<"recipientPhone fails to match the required pattern">>
    ELSE IF b.templateName = Undefined THEN <<"templateName is required">>
    ELSE Undefined

\* The validated value: languageCode defaults to pt_BR.
sendTemplateSchemaValue(b) ==
    [recipientPhone |-> b.recipientPhone, templateName |-> b.templateName,
     languageCode |-> IF b.languageCode = Undefined THEN <<"pt_BR">> ELSE b.languageCode,
     parameters |-> b.parameters]

SendBodies ==
    [recipientPhone : ReqPhones, message : ReqMessages, linkUrl : ReqLinks,
     linkPreview : LinkPreviews]

TemplateBodies ==
    [recipientPhone : {Undefined, PhonePlus, PhoneLetters}, templateName : TemplateNames,
     languageCode : LanguageCodes, parameters : ParameterLists]

LinkBodies ==
    [recipientPhone : {Undefined, PhoneParens, << >>}, linkUrl : {Undefined, GoodLink},
     message : {Undefined, <<"h", "i">>}]

\* The Cloud service has no mutable field (its configuration is read once, in
\* the constructor), so a request is handled the same whatever came before
\* it: a run of the Cloud variant follows one request from a fresh process.
Idle == last.kind = "none"

NoBody == [recipientPhone |-> Undefined]

\* The handler returned a body without reaching the provider.
Answered(route, hk, qk, req, status, body, ops) ==
    last' = Http(route, hk, qk, req, status, body, ops, << >>)

Posted_Resends(route, hk, qk, req, op, post) ==
    last' = Http(route, hk, qk, req, 0, Result(FALSE, Undefined, Undefined), <<op>>,
                 <<post, post>>)

\* The handler is suspended on axios.post.
Posted(route, hk, qk, req, op, post) ==
    last' = Http(route, hk, qk, req, 0, Result(FALSE, Undefined, Undefined), <<op>>, <<post>>)

\* app.use('/api/whatsapp', authenticateApiKey, whatsappRoutes): the middleware
\* answers a request to any path under /api/whatsapp before any route runs.
Unauthorized(hk, qk) ==
    /\ variant = "session" \/ (variant = "cloud" /\ Idle)
    /\ authenticateApiKey(hk, qk) # 0
    /\ last' = Http("/api/whatsapp/*", hk, qk, [recipientPhone |-> Undefined],
                    authenticateApiKey(hk, qk),
                    AuthErrorBody(authenticateApiKey(hk, qk)), << >>, << >>)
    /\ UNCHANGED <<nvars, cvars, svars>>

\* router.post('/send') of the Cloud routes with sendMessage up to its await
CloudSend(hk, qk, b) ==
    /\ variant = "cloud" /\ Idle
    /\ authenticateApiKey(hk, qk) = 0
    /\ IF sendMessageSchemaError(b) # Undefined
          THEN Answered("send", hk, qk, b, 400,
                        Result(FALSE, Undefined, sendMessageSchemaError(b)), << >>)
       ELSE IF ~isConfigured
          THEN Answered("send", hk, qk, b, ResultStatus(NotConfiguredSend),
                        NotConfiguredSend, <<"sendMessage">>)
       ELSE Posted("send", hk, qk, b, "sendMessage", TextPost(sendMessageSchemaValue(b)))
    /\ UNCHANGED <<nvars, cvars, svars>>

\* router.post('/send-link') with sendMessage up to its await
CloudSendLink(hk, qk, b) ==
    /\ variant = "cloud" /\ Idle
    /\ authenticateApiKey(hk, qk) = 0
    /\ IF ~Truthy(b.recipientPhone) \/ ~Truthy(b.linkUrl)
          THEN Answered("send-link", hk, qk, b, 400,
                        Result(FALSE, Undefined,
                               <<"recipientPhone e linkUrl são obrigatórios">>), << >>)
       ELSE IF ~isConfigured
          THEN Answered("send-link", hk, qk, b, ResultStatus(NotConfiguredSend),
                        NotConfiguredSend, <<"sendMessage">>)
       ELSE Posted("send-link", hk, qk, b, "sendMessage",
                   TextPost([recipientPhone |-> b.recipientPhone,
                             message |-> IF Truthy(b.message) THEN b.message
                                         ELSE <<"Acesse o link abaixo:">>,
                             linkUrl |-> b.linkUrl,
                             linkPreview |-> <<"true">>]))
    /\ UNCHANGED <<nvars, cvars, svars>>

\* router.post('/send-template') with sendTemplateMessage up to its await
CloudSendTemplate(hk, qk, b) ==
    /\ variant = "cloud" /\ Idle
    /\ authenticateApiKey(hk, qk) = 0
    /\ IF sendTemplateSchemaError(b) # Undefined
          THEN Answered("send-template", hk, qk, b, 400,
                        Result(FALSE, Undefined, sendTemplateSchemaError(b)), << >>)
       ELSE IF ~isConfigured
          THEN Answered("send-template", hk, qk, b, ResultStatus(NotConfiguredTemplate),
                        NotConfiguredTemplate, <<"sendTemplateMessage">>)
       ELSE Posted("send-template", hk, qk, b, "sendTemplateMessage",
                   TemplatePost(sendTemplateSchemaValue(b)))
    /\ UNCHANGED <<nvars, cvars, svars>>

\* axios.post settles: the rest of sendMessage / sendTemplateMessage and of
\* the route handler that awaited it.
CloudPostSettles(outcome) ==
    /\ variant = "cloud"
    /\ last.kind = "http" /\ last.status = 0
    /\ LET result == CloudSettle(last.ops[1], outcome)
       IN  last' = [last EXCEPT !.status = ResultStatus(result), !.body = result,
                                !.got = outcome]
    /\ UNCHANGED <<nvars, cvars, svars>>

CloudInit ==
    /\ nPhone = << >> /\ nOut = << >> /\ nOut2 = << >> /\ nPc = "unused"
    /\ variant = "cloud"
    /\ API_SECRET \in EnvSecrets
    /\ accessToken \in AccessTokens
    /\ phoneNumberId \in PhoneNumberIds
    /\ last = NoStep
    /\ SessionFresh

\* router.get('/status') of the Cloud routes: { success: true, ...status }
CloudStatus(hk, qk) ==
    /\ variant = "cloud" /\ Idle
    /\ authenticateApiKey(hk, qk) = 0
    /\ Answered("status", hk, qk, NoBody, 200,
                [success |-> TRUE,
                 isConfigured |-> getStatusCloud.isConfigured,
                 phoneNumberId |-> getStatusCloud.phoneNumberId,
                 apiVersion |-> getStatusCloud.apiVersion], <<"getStatus">>)
    /\ UNCHANGED <<nvars, cvars, svars>>

CloudNext ==
    \/ \E k \in KeyPairs :
          \/ CloudStatus(k[1], k[2])
          \/ \E b \in SendBodies : CloudSend(k[1], k[2], b)
          \/ \E b \in LinkBodies : CloudSendLink(k[1], k[2], b)
          \/ \E b \in TemplateBodies : CloudSendTemplate(k[1], k[2], b)
    \/ \E k \in KeyPairs : variant = "cloud" /\ Unauthorized(k[1], k[2])
    \/ \E outcome \in Outcomes : CloudPostSettles(outcome)

SpecCloud == CloudInit /\ [][CloudNext]_vars

\* ------------------------------------------------ session service

Clients == 1..MaxClients
Slots == 1..MaxDisconnects

QRs == {<<"qr-1">>, <<"qr-2">>}

\* client.info.wid.user of the account client c is logged in to
WidUser(c) == <<"55119999000", ToString(c)>>

IdleDisconnect == [pc |-> "idle", loggedOut |-> 0, target |-> 0]

IdleSend == [pc |-> "idle", route |-> "", req |-> NoBody, calls |-> << >>]

\* The label of a step in which a suspended handler resumed and answered.
Reply(route, status, body, ops, calls) ==
    [kind |-> "reply", route |-> route, status |-> status, body |-> body,
     ops |-> ops, posts |-> calls]

\* The label of a step in which the provider client emitted an event.
Event(name, c, payload) ==
    [kind |-> "event", name |-> name, client |-> c, payload |-> payload]

\* A client emits events until it is destroyed or its session has ended.
Live(c) == cl[c].phase \in {"starting", "authed", "ready"}

Ok == Result(TRUE, Undefined, Undefined)

Failure(message) == Result(FALSE, Undefined, message)

\* error.message of a caught error, '' standing for an absent message
ThrownMessages == {<< >>, <<"Evaluation failed">>}

\* router.post('/initialize') and initialize() up to `await this.client.initialize()`
SessInitialize(hk, qk) ==
    /\ variant = "session"
    /\ \/ /\ authenticateApiKey(hk, qk) = 0
          /\ (client # 0 /\ isReady) \/ isInitializing
          /\ Answered("initialize", hk, qk, NoBody, 200, Ok, <<"initialize">>)
          /\ UNCHANGED svars
       \/ /\ authenticateApiKey(hk, qk) = 0
          /\ ~(client # 0 /\ isReady) /\ ~isInitializing
          /\ \E c \in Clients :
                /\ cl[c].phase = "unborn"
                /\ \A b \in 1..(c - 1) : cl[b].phase # "unborn"
                /\ isInitializing' = TRUE
                /\ client' = c
                /\ cl' = [cl EXCEPT ![c] = [phase |-> "starting", initPending |-> TRUE,
                                            info |-> Undefined]]
          /\ last' = Http("initialize", hk, qk, NoBody, 0, Failure(Undefined),
                          <<"initialize">>, << >>)
          /\ UNCHANGED <<isReady, qrCodeData, phoneNumber, disc, snd>>
    /\ UNCHANGED <<nvars, cvars>>

\* `await this.client.initialize()` of client c settles: initialize() returns,
\* or its catch block clears the flag and rethrows; the route answers.
InitializeSettles(c, resolved) ==
    /\ variant = "session"
    /\ cl[c].initPending
    /\ cl' = [cl EXCEPT ![c].initPending = FALSE]
    /\ IF resolved
          THEN /\ last' = Reply("initialize", 200, Ok, <<"initialize">>, << >>)
               /\ UNCHANGED isInitializing
          ELSE /\ last' = Reply("initialize", 500, Failure(<<"Failed to launch the browser process">>),
                                <<"initialize">>, << >>)
               /\ isInitializing' = FALSE
    /\ UNCHANGED <<client, isReady, qrCodeData, phoneNumber, disc, snd, nvars, cvars>>

\* this.client.on('qr', ...)
OnQr(c, qr) ==
    /\ variant = "session"
    /\ cl[c].phase = "starting"
    /\ qrCodeData' = qr
    /\ last' = Event("qr", c, qr)
    /\ UNCHANGED <<client, isInitializing, isReady, phoneNumber, cl, disc, snd, nvars, cvars>>

\* this.client.on('authenticated', ...)
OnAuthenticated(c) ==
    /\ variant = "session"
    /\ cl[c].phase = "starting"
    /\ cl' = [cl EXCEPT ![c].phase = "authed"]
    /\ qrCodeData' = Undefined
    /\ last' = Event("authenticated", c, Undefined)
    /\ UNCHANGED <<client, isInitializing, isReady, phoneNumber, disc, snd, nvars, cvars>>

OnReady_KeepsInitializing(c) ==
    /\ variant = "session"
    /\ cl[c].phase = "authed"
    /\ cl' = [cl EXCEPT ![c].phase = "ready", ![c].info = WidUser(c)]
    /\ isReady' = TRUE
    /\ UNCHANGED isInitializing
    /\ phoneNumber' = IF client # 0 /\ cl'[client].info # Undefined
                         THEN cl'[client].info ELSE phoneNumber
    /\ last' = Event("ready", c, Undefined)
    /\ UNCHANGED <<client, qrCodeData, disc, snd, nvars, cvars>>

\* this.client.on('ready', ...): the provider has set client.info before it
\* emits; the handler reads `this.client?.info`, the info of the current client.
OnReady(c) ==
    /\ variant = "session"
    /\ cl[c].phase = "authed"
    /\ cl' = [cl EXCEPT ![c].phase = "ready", ![c].info = WidUser(c)]
    /\ isReady' = TRUE
    /\ isInitializing' = FALSE
    /\ phoneNumber' = IF client # 0 /\ cl'[client].info # Undefined
                         THEN cl'[client].info ELSE phoneNumber
    /\ last' = Event("ready", c, Undefined)
    /\ UNCHANGED <<client, qrCodeData, disc, snd, nvars, cvars>>

\* this.client.on('disconnected', ...)
OnDisconnected(c) ==
    /\ variant = "session"
    /\ cl[c].phase \in {"authed", "ready"}
    /\ cl' = [cl EXCEPT ![c].phase = "down"]
    /\ isReady' = FALSE
    /\ qrCodeData' = Undefined
    /\ last' = Event("disconnected", c, <<"NAVIGATION">>)
    /\ UNCHANGED <<client, isInitializing, phoneNumber, disc, snd, nvars, cvars>>

\* this.client.on('auth_failure', ...)
OnAuthFailure(c) ==
    /\ variant = "session"
    /\ cl[c].phase = "starting"
    /\ cl' = [cl EXCEPT ![c].phase = "down"]
    /\ isReady' = FALSE
    /\ qrCodeData' = Undefined
    /\ isInitializing' = FALSE
    /\ last' = Event("auth_failure", c, <<"session expired">>)
    /\ UNCHANGED <<client, phoneNumber, disc, snd, nvars, cvars>>

\* getStatus() of the session service
getStatus ==
    [isConnected |-> isReady,
     phoneNumber |-> IF Truthy(phoneNumber) THEN phoneNumber ELSE Undefined,
     qrCode |-> IF Truthy(qrCodeData) THEN qrCodeData ELSE Undefined]

SessStatus_ClearsQr(hk, qk) ==
    /\ variant = "session"
    /\ authenticateApiKey(hk, qk) = 0
    /\ Answered("status", hk, qk, NoBody, 200, getStatus, <<"getStatus">>)
    /\ qrCodeData' = Undefined
    /\ UNCHANGED <<client, isInitializing, isReady, phoneNumber, cl, disc, snd, nvars, cvars>>

\* router.get('/status') of the session routes
SessStatus(hk, qk) ==
    /\ variant = "session"
    /\ authenticateApiKey(hk, qk) = 0
    /\ Answered("status", hk, qk, NoBody, 200, getStatus, <<"getStatus">>)
    /\ UNCHANGED <<svars, nvars, cvars>>

\* router.get('/qr'): 404 without a QR payload; QRCode.toDataURL may throw
SessQr(hk, qk, rendered) ==
    /\ variant = "session"
    /\ authenticateApiKey(hk, qk) = 0
    /\ IF ~Truthy(qrCodeData)
          THEN Answered("qr", hk, qk, NoBody, 404, Failure(Undefined), <<"getQRCode">>)
       ELSE IF rendered
          THEN Answered("qr", hk, qk, NoBody, 200,
                        [success |-> TRUE, qrData |-> qrCodeData], <<"getQRCode">>)
       ELSE Answered("qr", hk, qk, NoBody, 500, Failure(<<"Evaluation failed">>),
                     <<"getQRCode">>)
    /\ UNCHANGED <<svars, nvars, cvars>>

\* router.post('/disconnect') and disconnect() up to `await this.client.logout()`
SessDisconnect(hk, qk) ==
    /\ variant = "session"
    /\ \/ /\ authenticateApiKey(hk, qk) = 0
          /\ client = 0
          /\ Answered("disconnect", hk, qk, NoBody, 200, Ok, <<"disconnect">>)
          /\ UNCHANGED svars
       \/ /\ authenticateApiKey(hk, qk) = 0
          /\ client # 0
          /\ \E d \in Slots :
                /\ disc[d].pc = "idle"
                /\ \A e \in 1..(d - 1) : disc[e].pc # "idle"
                /\ disc' = [disc EXCEPT ![d] = [pc |-> "logout", loggedOut |-> client,
                                                target |-> client]]
          /\ last' = Http("disconnect", hk, qk, NoBody, 0, Failure(Undefined),
                          <<"disconnect">>, << >>)
          /\ UNCHANGED <<client, isInitializing, isReady, qrCodeData, phoneNumber, cl, snd>>
    /\ UNCHANGED <<nvars, cvars>>

\* `await this.client.logout()` settles.  Resolved: the session of that client
\* has ended, and `this.client.destroy()` is called on what this.client is
\* now (a TypeError when it is null).  Rejected: the catch block rethrows.
LogoutSettles(d, resolved) ==
    /\ variant = "session"
    /\ disc[d].pc = "logout"
    /\ IF ~resolved
          THEN /\ disc' = [disc EXCEPT ![d] = IdleDisconnect]
               /\ last' = Reply("disconnect", 500, Failure(<<"Protocol error">>),
                                <<"disconnect">>, << >>)
               /\ UNCHANGED cl
       ELSE /\ cl' = [cl EXCEPT ![disc[d].target].phase =
                          IF Live(disc[d].target) THEN "down" ELSE @]
            /\ IF client = 0
                  THEN /\ disc' = [disc EXCEPT ![d] = IdleDisconnect]
                       /\ last' = Reply("disconnect", 500,
                                        Failure(<<"Cannot read properties of null (reading 'destroy')">>),
                                        <<"disconnect">>, << >>)
                  ELSE /\ disc' = [disc EXCEPT ![d].pc = "destroy", ![d].target = client]
                       /\ last' = [kind |-> "resume", route |-> "disconnect"]
    /\ UNCHANGED <<client, isInitializing, isReady, qrCodeData, phoneNumber, snd, nvars, cvars>>

\* `await this.client.destroy()` settles.  Resolved: the fields are reset and
\* disconnect() returns.  Rejected: the catch block rethrows, nothing is reset.
DestroySettles(d, resolved) ==
    /\ variant = "session"
    /\ disc[d].pc = "destroy"
    /\ disc' = [disc EXCEPT ![d] = IdleDisconnect]
    /\ IF resolved
          THEN /\ cl' = [cl EXCEPT ![disc[d].target].phase = "destroyed"]
               /\ client' = 0
               /\ isReady' = FALSE
               /\ qrCodeData' = Undefined
               /\ phoneNumber' = Undefined
               /\ last' = Reply("disconnect", 200, Ok, <<"disconnect">>, << >>)
          ELSE /\ last' = Reply("disconnect", 500, Failure(<<"Protocol error">>),
                                <<"disconnect">>, << >>)
               /\ UNCHANGED <<cl, client, isReady, qrCodeData, phoneNumber>>
    /\ UNCHANGED <<isInitializing, snd, nvars, cvars>>

\* --- sendMessage of the session service

MediaLink == <<"https", ":", "//x.com/exam.pdf">>

SessBody(phone, content, mediaUrl) ==
    [recipientPhone |-> phone, content |-> content, mediaUrl |-> mediaUrl]

\* <<route, req.body>> of the requests tried on /send and /send-media
SessSendRequests ==
    {<<"send", SessBody(Undefined, <<"h", "i">>, Undefined)>>,
     <<"send", SessBody(PhonePlus, <<"h", "i">>, MediaLink)>>,
     <<"send-media", SessBody(PhonePlus, <<"h", "i">>, Undefined)>>,
     <<"send-media", SessBody(PhonePlus, <<"h", "i">>, MediaLink)>>}

\* The middleware is the one the Cloud routes are mounted behind; the session
\* routes are tried without a key and with the right key in the header.
SessKeyPairs == {<<Undefined, Undefined>>, <<<<"s3cret">>, Undefined>>}

ChatIds == {<<"5511999999999@c.us">>}

LookupOutcomes ==
    [kind : {"found"}, value : ChatIds] \cup [kind : {"empty"}, value : {Undefined}]
    \cup [kind : {"reject"}, value : ThrownMessages]

SendOutcomes ==
    [kind : {"ack"}, value : MsgIds] \cup [kind : {"reject"}, value : ThrownMessages]

Call(fn, on, arg) == [fn |-> fn, on |-> on, arg |-> arg]

NotConnected ==
    Failure(<<"WhatsApp não está conectado. Inicialize o cliente primeiro.">>)

NotRegistered(phone) ==
    Failure(<<"O número ">> \o phone \o <<" não está registrado no WhatsApp.">>)

\* catch block of sendMessage: error.message || 'Erro ao enviar mensagem'
SessionCatch(message) ==
    Failure(IF Truthy(message) THEN message ELSE <<"Erro ao enviar mensagem">>)

\* sendMessage returned: the route answers 200 or 400 with the result.
SendReturns(result) ==
    /\ snd' = IdleSend
    /\ last' = Reply(snd.route, ResultStatus(result), result, <<"sendMessage">>, snd.calls)

ProviderSend_DropsMedia(chatId, media) ==
    IF client = 0
       THEN SendReturns(SessionCatch(<<"Cannot read properties of null (reading 'sendMessage')">>))
       ELSE /\ snd' = [snd EXCEPT !.pc = "send",
                                  !.calls = @ \o <<Call("sendMessage", client,
                                                       [chatId |-> chatId,
                                                        text |-> snd.req.content,
                                                        media |-> Undefined])>>]
            /\ last' = [kind |-> "resume", route |-> snd.route]

\* `this.client.sendMessage(validChatId, ...)` on what this.client is now; a
\* TypeError, caught like any other error, when it is null.
ProviderSend(chatId, media) ==
    IF client = 0
       THEN SendReturns(SessionCatch(<<"Cannot read properties of null (reading 'sendMessage')">>))
       ELSE /\ snd' = [snd EXCEPT !.pc = "send",
                                  !.calls = @ \o <<Call("sendMessage", client,
                                                       [chatId |-> chatId,
                                                        text |-> snd.req.content,
                                                        media |-> media])>>]
            /\ last' = [kind |-> "resume", route |-> snd.route]

\* The request the route passes to sendMessage: /send drops mediaUrl.
SessRequest(route, b) ==
    IF route = "send" THEN [b EXCEPT !.mediaUrl = Undefined] ELSE b

SessGuardFails_OnlyWithoutClient == client = 0

\* !this.client || !this.isReady
SessGuardFails == client = 0 \/ ~isReady

\* router.post('/send') and router.post('/send-media') of the session routes,
\* with sendMessage up to `await this.client.getNumberId(formattedPhone)`
SessSend(route, hk, qk, b) ==
    /\ variant = "session"
    /\ \/ /\ authenticateApiKey(hk, qk) = 0
          /\ \/ ~Truthy(b.recipientPhone)
             \/ ~Truthy(b.content)
             \/ (route = "send-media" /\ ~Truthy(b.mediaUrl))
          /\ Answered(route, hk, qk, b, 400,
                      Failure(IF route = "send"
                                 THEN <<"recipientPhone e content são obrigatórios">>
                                 ELSE <<"recipientPhone, content e mediaUrl são obrigatórios">>),
                      << >>)
          /\ UNCHANGED snd
       \/ /\ authenticateApiKey(hk, qk) = 0
          /\ Truthy(b.recipientPhone) /\ Truthy(b.content)
          /\ route = "send-media" => Truthy(b.mediaUrl)
          /\ IF SessGuardFails
                THEN /\ Answered(route, hk, qk, b, ResultStatus(NotConnected), NotConnected,
                                 <<"sendMessage">>)
                     /\ UNCHANGED snd
                ELSE /\ snd.pc = "idle"
                     /\ snd' = [pc |-> "lookup", route |-> route,
                                req |-> SessRequest(route, b),
                                calls |-> <<Call("getNumberId", client,
                                                 StripNonDigits(b.recipientPhone))>>]
                     /\ last' = Http(route, hk, qk, b, 0, Failure(Undefined),
                                     <<"sendMessage">>, snd'.calls)
    /\ UNCHANGED <<client, isInitializing, isReady, qrCodeData, phoneNumber, cl, disc,
                   nvars, cvars>>

\* `await this.client.getNumberId(...)` settles
LookupSettles(outcome) ==
    /\ variant = "session"
    /\ snd.pc = "lookup"
    /\ IF outcome.kind = "reject" THEN SendReturns(SessionCatch(outcome.value))
       ELSE IF outcome.kind = "empty"
               THEN SendReturns(NotRegistered(snd.req.recipientPhone))
       ELSE IF Truthy(snd.req.mediaUrl)
               THEN /\ snd' = [snd EXCEPT !.pc = "media",
                                          !.calls = @ \o <<Call("MessageMedia.fromUrl", 0,
                                                               snd.req.mediaUrl)>>]
                    /\ last' = [kind |-> "resume", route |-> snd.route]
       ELSE ProviderSend(outcome.value, Undefined)
    /\ UNCHANGED <<client, isInitializing, isReady, qrCodeData, phoneNumber, cl, disc,
                   nvars, cvars>>

\* `await MessageMedia.fromUrl(request.mediaUrl)` settles
MediaSettles(chatId, message, resolved) ==
    /\ variant = "session"
    /\ snd.pc = "media"
    /\ snd.calls[1].fn = "getNumberId"
    /\ IF resolved THEN ProviderSend(chatId, snd.req.mediaUrl)
       ELSE SendReturns(SessionCatch(message))
    /\ UNCHANGED <<client, isInitializing, isReady, qrCodeData, phoneNumber, cl, disc,
                   nvars, cvars>>

\* `await this.client.sendMessage(...)` settles
SendSettles(outcome) ==
    /\ variant = "session"
    /\ snd.pc = "send"
    /\ IF outcome.kind = "ack"
          THEN SendReturns(Result(TRUE, outcome.value, Undefined))
          ELSE SendReturns(SessionCatch(outcome.value))
    /\ UNCHANGED <<client, isInitializing, isReady, qrCodeData, phoneNumber, cl, disc,
                   nvars, cvars>>

SessionInit ==
    /\ nPhone = << >> /\ nOut = << >> /\ nOut2 = << >> /\ nPc = "unused"
    /\ variant = "session"
    /\ API_SECRET \in EnvSecrets
    /\ accessToken = Undefined
    /\ phoneNumberId = Undefined
    /\ last = NoStep
    /\ SessionFresh

SessionNext ==
    \/ \E k \in SessKeyPairs :
          \/ Unauthorized(k[1], k[2])
          \/ SessInitialize(k[1], k[2])
          \/ SessStatus(k[1], k[2])
          \/ \E rendered \in BOOLEAN : SessQr(k[1], k[2], rendered)
          \/ SessDisconnect(k[1], k[2])
          \/ \E r \in SessSendRequests : SessSend(r[1], k[1], k[2], r[2])
    \/ \E c \in Clients :
          \/ \E resolved \in BOOLEAN : InitializeSettles(c, resolved)
          \/ \E qr \in QRs : OnQr(c, qr)
          \/ OnAuthenticated(c)
          \/ OnReady(c)
          \/ OnDisconnected(c)
          \/ OnAuthFailure(c)
    \/ \E d \in Slots, resolved \in BOOLEAN :
          \/ LogoutSettles(d, resolved)
          \/ DestroySettles(d, resolved)
    \/ \E outcome \in LookupOutcomes : LookupSettles(outcome)
    \/ \E chatId \in ChatIds, message \in ThrownMessages, resolved \in BOOLEAN :
          MediaSettles(chatId, message, resolved)
    \/ \E outcome \in SendOutcomes : SendSettles(outcome)

SpecSession == SessionInit /\ [][SessionNext]_vars

\* ------------------------------------------------ the two deployments

Init == CloudInit \/ SessionInit

Next == CloudNext \/ SessionNext

Spec == Init /\ [][Next]_vars

\* ------------------------------------------------ claims on the normalizer

\* The normalizer as the specification words it: keep the digits, drop one
\* leading zero, prepend 55 when at most 11 digits remain.
RECURSIVE RefDigitsOnly(_)
RefDigitsOnly(s) ==
    IF s = << >> THEN << >>
    ELSE (IF Head(s) \in Digits THEN <<Head(s)>> ELSE << >>) \o RefDigitsOnly(Tail(s))

RefNormalize(s) ==
    LET d == RefDigitsOnly(s)
        z == IF d # << >> /\ Head(d) = "0" THEN Tail(d) ELSE d
    IN  IF Len(z) <= 11 THEN <<"5", "5">> \o z ELSE z

\* C6: formatPhoneNumber equals the reference function on every input over
\* digits, spaces, '+', '-', '(' and ')', and the four documented examples
\* all map to 5511999999999.
C6_NormalizerMatchesReference ==
    nPc # "input" =>
        /\ nOut = RefNormalize(nPhone)
        /\ (nPhone \in {PhoneLocal, PhonePlus, PhoneParens, PhoneZero55}
                => nOut = PhoneCanonical)

C6_Witness == nPc = "once" /\ nPhone = PhoneZero55 /\ nOut = PhoneCanonical

\* C7 (as stated): whenever the normalized form is longer than 11 digits,
\* normalizing it again gives the same string.
C7_IdempotentAboveThreshold ==
    (nPc = "twice" /\ Len(nOut) > 11) => nOut2 = nOut

\* C7 (amended): whenever the normalized form is longer than 11 digits and
\* does not begin with '0', normalizing it again gives the same string.
C7_IdempotentNoLeadingZero ==
    (nPc = "twice" /\ Len(nOut) > 11 /\ nOut[1] # "0") => nOut2 = nOut

C7_Witness ==
    nPc = "twice" /\ nPhone = PhoneLocal /\ nOut = PhoneCanonical /\ nOut2 = PhoneCanonical

\* C8 (as stated): the empty phone string normalizes to the empty string.
C8_EmptyToEmpty ==
    (nPc # "input" /\ nPhone = << >>) => nOut = << >>

\* C8 (amended): the empty phone string normalizes to "55", the country code
\* alone, because the empty digit string is not longer than 11.
C8_EmptyToCountryCode ==
    (nPc # "input" /\ nPhone = << >>) => nOut = <<"5", "5">>

C8_Witness == nPc = "once" /\ nPhone = << >> /\ nOut = <<"5", "5">>

\* ------------------------------------------------ claims on the services

\* C1: initialize() never has two client.initialize() calls in flight: a
\* second client is never constructed while the first one's is unsettled.
C1_OneInitializationInFlight ==
    Cardinality({c \in Clients : cl[c].initPending}) <= 1

NotConnectedStatus ==
    [isConnected |-> FALSE, phoneNumber |-> Undefined, qrCode |-> Undefined]

\* C2: once a disconnect() that found a client has finished, by returning or
\* by throwing, getStatus() reports not connected, no phone number, no QR code.
C2_DisconnectAlwaysResets ==
    (last.kind = "reply" /\ last.route = "disconnect") => getStatus = NotConnectedStatus

\* C3: a sendMessage call that finds the session service without a client or
\* not ready, or the Cloud service without access token or phone-number id,
\* returns at once (it does not throw: the route answers 400, not 500) a
\* failure with a non-empty error, and no provider call is made or started.
C3_CalledUnready ==
    /\ last'.kind = "http"
    /\ last'.ops = <<"sendMessage">>
    /\ \/ variant = "session" /\ (client = 0 \/ ~isReady)
       \/ variant = "cloud" /\ (~Truthy(accessToken) \/ ~Truthy(phoneNumberId))

C3_UnreadySendFailsWithoutProviderCall ==
    [][C3_CalledUnready =>
          /\ last'.status = 400
          /\ last'.body.success = FALSE
          /\ Truthy(last'.body.error)
          /\ last'.posts = << >>
          /\ snd' = snd]_vars

C3_Witness ==
    /\ variant = "session" /\ client # 0 /\ ~isReady
    /\ last.kind = "http" /\ last.route = "send-media" /\ last.ops = <<"sendMessage">>
    /\ last.status = 400 /\ last.posts = << >> /\ snd.pc = "idle"

\* C4: every result of sendMessage and sendTemplateMessage has a messageId
\* and no error when success is true, and an error when success is false.
C4_DispatchResultWellFormed ==
    (/\ last.kind \in {"http", "reply"}
     /\ last.status # 0
     /\ last.ops \in {<<"sendMessage">>, <<"sendTemplateMessage">>})
        => /\ last.body.success => (last.body.messageId # Undefined
                                       /\ last.body.error = Undefined)
           /\ ~last.body.success => last.body.error # Undefined

\* C5 (as stated): qr stores the payload; authenticated clears it; ready sets
\* the ready flag and captures the number of the client that became ready;
\* disconnected clears ready flag and QR; auth_failure clears ready flag, QR
\* and initializing flag; and an event changes no other field.
C5_EventsChangeOnlyNamedFields ==
    [][last'.kind = "event" =>
          CASE last'.name = "qr" ->
                  /\ qrCodeData' = last'.payload
                  /\ UNCHANGED <<client, isInitializing, isReady, phoneNumber>>
            [] last'.name = "authenticated" ->
                  /\ qrCodeData' = Undefined
                  /\ UNCHANGED <<client, isInitializing, isReady, phoneNumber>>
            [] last'.name = "ready" ->
                  /\ isReady' = TRUE
                  /\ phoneNumber' = WidUser(last'.client)
                  /\ UNCHANGED <<client, isInitializing, qrCodeData>>
            [] last'.name = "disconnected" ->
                  /\ isReady' = FALSE /\ qrCodeData' = Undefined
                  /\ UNCHANGED <<client, isInitializing, phoneNumber>>
            [] last'.name = "auth_failure" ->
                  /\ isReady' = FALSE /\ qrCodeData' = Undefined /\ isInitializing' = FALSE
                  /\ UNCHANGED <<client, phoneNumber>>]_vars

\* C5 (amended): as above, except that ready also clears the initializing
\* flag, and the number it captures is that of the current client
\* (this.client.info) when there is one, the phone number staying as it was
\* when this.client is null or has no info yet.
C5_EventTransitions ==
    [][last'.kind = "event" =>
          CASE last'.name = "qr" ->
                  /\ qrCodeData' = last'.payload
                  /\ UNCHANGED <<client, isInitializing, isReady, phoneNumber>>
            [] last'.name = "authenticated" ->
                  /\ qrCodeData' = Undefined
                  /\ UNCHANGED <<client, isInitializing, isReady, phoneNumber>>
            [] last'.name = "ready" ->
                  /\ isReady' = TRUE /\ isInitializing' = FALSE
                  /\ IF client # 0 /\ cl'[client].info # Undefined
                        THEN phoneNumber' = cl'[client].info
                        ELSE phoneNumber' = phoneNumber
                  /\ UNCHANGED <<client, qrCodeData>>
            [] last'.name = "disconnected" ->
                  /\ isReady' = FALSE /\ qrCodeData' = Undefined
                  /\ UNCHANGED <<client, isInitializing, phoneNumber>>
            [] last'.name = "auth_failure" ->
                  /\ isReady' = FALSE /\ qrCodeData' = Undefined /\ isInitializing' = FALSE
                  /\ UNCHANGED <<client, phoneNumber>>]_vars

C5_Witness ==
    /\ last.kind = "event" /\ last.name = "ready"
    /\ isReady /\ ~isInitializing /\ client # 0 /\ phoneNumber = WidUser(client)

NoKey == last.kind = "http" /\ ~Truthy(last.hk) /\ ~Truthy(last.qk)

\* C9 (as stated): a request without API key is answered 401 and invokes no
\* dispatcher operation.
C9_NoKeyIs401 ==
    NoKey => (last.status = 401 /\ last.ops = << >>)

\* C9 (amended): a request without API key invokes no dispatcher operation
\* and is answered 401 when API_SECRET is set, 500 when it is not.
C9_NoKeyIsRejected ==
    NoKey => /\ last.ops = << >>
             /\ last.status = IF Truthy(API_SECRET) THEN 401 ELSE 500

C9_Witness ==
    NoKey /\ Truthy(API_SECRET) /\ last.status = 401 /\ variant = "session" /\ client # 0

\* C10: for a configured Cloud service and a valid POST /send body, exactly
\* one provider request is made, `to` is the normalized recipient phone, the
\* text body is the message followed by the link marker and the linkUrl (the
\* message alone without linkUrl), and an acknowledgement with id M is
\* answered 200 with {success: true, messageId: M}.
C10_SendEndToEnd ==
    (/\ variant = "cloud"
     /\ last.kind = "http" /\ last.route = "send"
     /\ Truthy(accessToken) /\ Truthy(phoneNumberId)
     /\ sendMessageSchemaError(last.req) = Undefined)
        => /\ Len(last.posts) = 1
           /\ last.posts[1].type = "text"
           /\ last.posts[1].to = RefNormalize(last.req.recipientPhone)
           /\ last.posts[1].body =
                 IF last.req.linkUrl = Undefined THEN last.req.message
                 ELSE last.req.message \o <<"NL", "NL", "LINK", " ">> \o last.req.linkUrl
           /\ last.got.kind = "ack" =>
                 /\ last.status = 200
                 /\ last.body = [success |-> TRUE, messageId |-> last.got.id,
                                 error |-> Undefined]

C10_Witness ==
    /\ variant = "cloud" /\ last.kind = "http" /\ last.route = "send"
    /\ last.req.recipientPhone = PhoneLocal /\ last.req.linkUrl = GoodLink
    /\ last.status = 200 /\ last.got.kind = "ack"
    /\ last.posts[1].to = PhoneCanonical

\* C11: a request that fails because a required secret or id is absent
\* (API_SECRET for any request; access token or phone-number id for the
\* Cloud send routes) is answered with status 500.
C11_ConfigurationErrorsAre500 ==
    (last.kind = "http" /\ last.status # 0) =>
        /\ ~Truthy(API_SECRET) => last.status = 500
        /\ (/\ variant = "cloud"
            /\ last.ops \in {<<"sendMessage">>, <<"sendTemplateMessage">>}
            /\ ~(Truthy(accessToken) /\ Truthy(phoneNumberId)))
              => last.status = 500

CallsOf(calls, fn) == Cardinality({i \in 1..Len(calls) : calls[i].fn = fn})

\* C12: nothing is retried.  A Cloud sendMessage or sendTemplateMessage on a
\* configured service has issued exactly one provider request, while it is
\* pending and after it succeeded or failed; a session sendMessage issues at
\* most one number lookup and at most one provider send.
C12_NothingIsRetried ==
    /\ (/\ variant = "cloud" /\ last.kind = "http"
        /\ last.ops \in {<<"sendMessage">>, <<"sendTemplateMessage">>}
        /\ Truthy(accessToken) /\ Truthy(phoneNumberId))
          => Len(last.posts) = 1
    /\ variant = "session" =>
          /\ CallsOf(snd.calls, "getNumberId") <= 1
          /\ CallsOf(snd.calls, "sendMessage") <= 1
          /\ (last.kind \in {"http", "reply"} /\ last.ops = <<"sendMessage">>)
                => /\ CallsOf(last.posts, "getNumberId") <= 1
                   /\ CallsOf(last.posts, "sendMessage") <= 1

C12_Witness ==
    /\ variant = "cloud" /\ last.kind = "http" /\ last.ops = <<"sendTemplateMessage">>
    /\ last.got.kind = "reject" /\ last.status = 400 /\ Len(last.posts) = 1

C13_StatusStep ==
    /\ last'.kind = "http"
    /\ last'.route = "status"
    /\ last'.ops = <<"getStatus">>

C13_WellFormed(body) ==
    IF variant = "session"
       THEN /\ DOMAIN body = {"isConnected", "phoneNumber", "qrCode"}
            /\ body.isConnected \in BOOLEAN
            /\ body.isConnected = isReady
            /\ body.phoneNumber \in {Undefined, phoneNumber}
            /\ body.qrCode \in {Undefined, qrCodeData}
       ELSE /\ DOMAIN body = {"success", "isConfigured", "phoneNumberId", "apiVersion"}
            /\ body.success = TRUE
            /\ body.isConfigured \in BOOLEAN
            /\ body.isConfigured = (Truthy(accessToken) /\ Truthy(phoneNumberId))
            /\ body.phoneNumberId # << >> /\ body.phoneNumberId # Undefined
            /\ body.apiVersion = <<"v18.0">>

\* C13: in both variants a getStatus() call made in any reachable state, with
\* zero configuration and before any initialize() included, returns a
\* well-formed status object without throwing (the route answers 200) and
\* leaves client, ready flag, initializing flag, QR payload, phone number and
\* credentials as they were.
C13_GetStatusIsTotalAndPure ==
    [][C13_StatusStep =>
          /\ last'.status = 200
          /\ C13_WellFormed(last'.body)
          /\ UNCHANGED <<client, isInitializing, qrCodeData, isReady, phoneNumber, cl,
                         API_SECRET, accessToken, phoneNumberId>>]_vars

C13_Witness ==
    /\ variant = "cloud"
    /\ ~Truthy(accessToken) /\ ~Truthy(phoneNumberId)
    /\ last.kind = "http" /\ last.route = "status" /\ last.status = 200
    /\ last.body.isConfigured = FALSE
    /\ last.body.phoneNumberId = <<"not_set">>

\* needle occurs in hay as a run of consecutive characters
Contains(hay, needle) ==
    \E i \in 0..(Len(hay) - Len(needle)) : SubSeq(hay, i + 1, i + Len(needle)) = needle

C14_SameStatus(body, status) ==
    /\ body.isConfigured = status.isConfigured
    /\ body.phoneNumberId = status.phoneNumberId
    /\ body.apiVersion = status.apiVersion

C14_TokenAndHiddenPartDoNotShow ==
    (variant = "cloud" /\ last.kind = "http" /\ last.route = "status" /\ last.status = 200) =>
        /\ \A t \in AccessTokens :
              (Truthy(t) /\ Truthy(accessToken))
                 => C14_SameStatus(last.body, getStatusOf(t, phoneNumberId))
        /\ \A id \in PhoneNumberIds :
              (/\ Truthy(id) /\ Truthy(phoneNumberId)
               /\ Substring0(id, RedactedLen) = Substring0(phoneNumberId, RedactedLen))
                 => C14_SameStatus(last.body, getStatusOf(accessToken, id))
        /\ Truthy(accessToken) => ~Contains(last.body.phoneNumberId, accessToken)

\* C14: the status object of the Cloud service is the same for any two
\* configurations that differ only in the value of a non-empty access token,
\* or only in the characters of the phone-number id after the redacted
\* prefix, and the full phone-number id never occurs in it.
C14_StatusLeaksNoSecrets ==
    /\ C14_TokenAndHiddenPartDoNotShow
    /\ (variant = "cloud" /\ last.kind = "http" /\ last.route = "status" /\ last.status = 200
        /\ Truthy(phoneNumberId))
          => ~Contains(last.body.phoneNumberId, phoneNumberId)

\* The provider calls of the sendMessage in progress are in the order of the
\* claim: the lookup first, the media fetch (if any) next, the send last.
C15_CallsInOrder ==
    snd.pc # "idle" =>
        /\ snd.calls # << >>
        /\ snd.calls[1] = Call("getNumberId", snd.calls[1].on,
                               RefDigitsOnly(snd.req.recipientPhone))
        /\ \A i \in 1..Len(snd.calls) :
              /\ snd.calls[i].fn = "getNumberId" => i = 1
              /\ snd.calls[i].fn = "MessageMedia.fromUrl" =>
                    /\ i = 2 /\ Truthy(snd.req.mediaUrl)
                    /\ snd.calls[i].arg = snd.req.mediaUrl
              /\ snd.calls[i].fn = "sendMessage" =>
                    /\ i = Len(snd.calls)
                    /\ snd.calls[i].arg.text = snd.req.content
                    /\ IF Truthy(snd.req.mediaUrl)
                          THEN /\ i = 3
                               /\ snd.calls[2].fn = "MessageMedia.fromUrl"
                               /\ snd.calls[i].arg.media = snd.req.mediaUrl
                          ELSE /\ i = 2
                               /\ snd.calls[i].arg.media = Undefined

\* An empty lookup ends the call with the 'not registered' failure, the
\* lookup being the only provider call made.
C15_EmptyLookupEnds ==
    \A o \in LookupOutcomes :
        (o.kind = "empty" /\ LookupSettles(o)) =>
            /\ last'.kind = "reply"
            /\ last'.body.success = FALSE
            /\ last'.body.error = <<"O número ">> \o snd.req.recipientPhone
                                    \o <<" não está registrado no WhatsApp.">>
            /\ Len(last'.posts) = 1
            /\ last'.posts[1].fn = "getNumberId"
            /\ snd'.pc = "idle"

\* C15: a session sendMessage that passed the READY guard first looks up the
\* digits-only phone; an empty lookup gives success=false with the 'number not
\* registered' error, with no media fetch and no send; with a mediaUrl the
\* media is fetched before the send and the text is its caption, otherwise
\* plain text is sent.
C15_SessionSendOrdering ==
    [][C15_CallsInOrder' /\ C15_EmptyLookupEnds]_vars

C15_Witness ==
    /\ snd.pc = "send" /\ Truthy(snd.req.mediaUrl)
    /\ Len(snd.calls) = 3
    /\ snd.calls[3].fn = "sendMessage"
    /\ snd.calls[3].arg.media = snd.req.mediaUrl

\* C16: a disconnect() calls destroy() on the client on which it called
\* logout(), whatever initialize() and the provider callbacks did while it was
\* suspended on the logout; a client constructed in the meantime is not the
\* one it destroys and drops.
C16_DisconnectDestroysItsOwnClient ==
    \A d \in Slots : disc[d].pc = "destroy" => disc[d].target = disc[d].loggedOut

\* No client, the initializing flag set, and nothing left that could clear it:
\* no client.initialize() is pending and no client is alive to emit an event.
C17_InitializeIsDeadForGood ==
    /\ client = 0
    /\ isInitializing
    /\ \A c \in Clients : ~cl[c].initPending /\ ~Live(c)

\* C17: once disconnect() has returned successfully, also when it was issued
\* while an initialization was pending or a QR code was awaiting its scan, the
\* next initialize() constructs and starts a new client (its two guards are
\* false); the service never has no client with initialize() a no-op for ever.
C17_ReinitializableAfterDisconnect ==
    /\ (/\ last.kind \in {"http", "reply"}
        /\ last.route = "disconnect"
        /\ last.status = 200)
          => (~(client # 0 /\ isReady) /\ ~isInitializing)
    /\ ~C17_InitializeIsDeadForGood

====
